---- MODULE Spec2Model ----
(***************************************************************************)
(* Model of app.py: the Streamlit handler main() and the coroutine         *)
(* generate_video(), with the external collaborators (the three LLM        *)
(* agents, the manim child process, the file system and moviepy) as        *)
(* nondeterministic choices over what they can return or raise.            *)
(***************************************************************************)
EXTENDS Integers, Sequences, FiniteSets, TLC

\* Largest number of chapters the outline agent is let to return in the model.
MaxChapters == 4

\* The loop bound of "while attempts < 2 and not success".
MaxAttempts == 2

\* "Write a title and up to 3 chapters" (system prompt of outline_agent).
MaxOutlineChapters == 3

None == "None"

\* A scene source is a sequence of lines.  A line that is a class name stands
\* for "class <name>(Scene):"; "stmt" is any other line.
ClassNames == {"SceneA", "SceneB"}

Sources ==
    { <<"stmt">>, <<"stmt", "SceneA">>, <<"stmt", "SceneB", "SceneA">> }

\* Names tempfile.NamedTemporaryFile can hand out.
TempNames == {"tmp1.py", "tmp2.py"}

final_path == "final_video.mp4"

Min(S) == CHOOSE x \in S : \A y \in S : x <= y

\* re.search returns the first declaration of the source; no match raises.
ValueError == "Could not extract class name from Manim code."

\* Mutant of extract_class_name: a default name instead of the exception.
extract_class_name_default(code) ==
    LET hits == {k \in 1..Len(code) : code[k] \in ClassNames}
    IN  IF hits = {} THEN "SceneA" ELSE code[Min(hits)]

extract_class_name(code) ==
    LET hits == {k \in 1..Len(code) : code[k] \in ClassNames}
    IN  IF hits = {} THEN ValueError ELSE code[Min(hits)]

video_path(class_name) == "./media/videos/temp/480p15/" \o class_name \o ".mp4"

VideoPaths == {video_path(c) : c \in ClassNames}

VARIABLES
    pc,             \* position of the control flow in main / generate_video
    concept,        \* st.text_input value of the current script run
    outline,        \* outline.chapters, a sequence of chapter titles
    i,              \* enumerate index of the chapter being processed
    manim_code,     \* current scene source of the chapter
    attempts,
    success,
    e,              \* str(e) of the exception being handled, or None
    video_files,
    temp_files,     \* temporary source files present on disk
    temp_file_name, \* temp_file.name of the render call in progress, or None
    process,        \* state of the manim child process
    disk,           \* video files present on disk
    clips,          \* clip handles opened and not closed
    reports,        \* st.* calls of the current script run, in order
    final_video,    \* value returned by generate_video, or None
    raised,         \* exception that escaped generate_video, or None
    trace,          \* render and fix calls made for the current chapter
    chapter_result  \* how each finished chapter ended

vars == <<pc, concept, outline, i, manim_code, attempts, success, e,
          video_files, temp_files, temp_file_name, process, disk, clips, reports,
          final_video, raised, trace, chapter_result>>

Init ==
    /\ pc = "idle"
    /\ concept = ""
    /\ outline = <<>>
    /\ i = 0
    /\ manim_code = None
    /\ attempts = 0
    /\ success = FALSE
    /\ e = None
    /\ video_files = <<>>
    /\ temp_files = {}
    /\ temp_file_name = None
    /\ process = None
    /\ disk = {}
    /\ clips = <<>>
    /\ reports = <<>>
    /\ final_video = None
    /\ raised = None
    /\ trace = <<>>
    /\ chapter_result = <<>>

Range(s) == {s[k] : k \in 1..Len(s)}

Report(kind, text, chapter) == [kind |-> kind, text |-> text, chapter |-> chapter]

\* One call of the current chapter, kept for the properties: a render
\* (create_video_from_code plus the os.path.exists test) or a fix.
RenderCall(code, out) ==
    [op |-> "render", code |-> code, err |-> None, out |-> out, ret |-> <<>>]

FixCall(code, err, out, ret) ==
    [op |-> "fix", code |-> code, err |-> err, out |-> out, ret |-> ret]

\* for i, chapter in enumerate(outline.chapters)
ForNext(idx, n) == IF idx < n THEN "generate" ELSE "assemble"

\* Mutant of WhileNext: the loop bound off by one (attempts <= 2).
WhileNextOffByOne(att, succ) ==
    IF att <= MaxAttempts /\ ~succ THEN "render" ELSE "after_loop"

\* while attempts < 2 and not success
WhileNext(att, succ) ==
    IF att < MaxAttempts /\ ~succ THEN "render" ELSE "after_loop"

\* Mutant of FixEligible: a fix is asked for after every failed render.
FixAlways(att) == TRUE

\* if attempts == 0 (the fix is asked for in the except block)
FixEligible(att) == att = 0

\* Mutant of RecordClip: the clip is inserted at the front of the list.
RecordClipFront(files, path) == <<path>> \o files

\* video_files.append(video_file)
RecordClip(files, path) == Append(files, path)

\* Mutant of AfterChapter: a skipped chapter breaks out of the for loop.
AfterChapterBreak(idx, n, succ) == IF succ THEN ForNext(idx, n) ELSE "assemble"

\* The for loop goes on after a chapter, rendered or skipped.
AfterChapter(idx, n, succ) == ForNext(idx, n)

\* How a finished chapter ended: its clip was appended to video_files, or the
\* loop ended with success still False and the warning was shown.
Rendered(title, clip) == [title |-> title, status |-> "Rendered", clip |-> clip]

Skipped(title) == [title |-> title, status |-> "Skipped", clip |-> None]

\* Mutant of VideoCreated: return code 0 is taken as proof of the artifact.
VideoCreatedUnchecked(video_file, files) == TRUE

\* if os.path.exists(video_file)
VideoCreated(video_file, files) == video_file \in files

\* Mutant of FixedSource: the fixer's answer is dropped, the old source kept.
FixedSourceDropped(current, fixed) == current

\* manim_code = fix_manim_code(str(e), manim_code)
FixedSource(current, fixed) == fixed

\* Mutant of ExistingClips: every recorded path is opened, on disk or not.
ExistingClipsUnchecked(files, on_disk) == files

\* [... for vf in video_files if os.path.exists(vf)]
ExistingClips(files, on_disk) == SelectSeq(files, LAMBDA vf : vf \in on_disk)

\* Mutant of TimeoutKill: the child is left running after the timeout.
TimeoutNoKill == "running"

\* except subprocess.TimeoutExpired: process.kill(); raise
TimeoutKill == "killed"

\* Mutant of RemoveTemp: the temporary file is left behind.
KeepTemp(files, name) == files

\* finally: if os.path.exists(temp_file_name): os.remove(temp_file_name)
RemoveTemp(files, name) == files \ {name}

\* An exception leaves generate_video and asyncio.run: the script run ends.
Escape(exc) ==
    /\ raised' = exc
    /\ pc' = "idle"

\* Mutant of Handler: the failed render is retried without asking for a fix.
HandlerNoFix(err) ==
    /\ e' = err
    /\ attempts' = attempts + 1
    /\ pc' = WhileNext(attempts + 1, success)

\* except Exception as e: ... attempts += 1
Handler(err) ==
    /\ e' = err
    /\ IF FixEligible(attempts)
       THEN /\ pc' = "fix"
            /\ UNCHANGED attempts
       ELSE /\ attempts' = attempts + 1
            /\ pc' = WhileNext(attempts + 1, success)

\* main(): a click on "Generate Video" with the text input's value.
Main ==
    /\ pc = "idle"
    /\ \E c \in {"", "concept"} :
        /\ concept' = c
        /\ IF c = ""
           THEN /\ reports' = <<Report("warning", "Please enter a concept.", 0)>>
                /\ pc' = "idle"
           ELSE /\ reports' = <<>>
                /\ pc' = "outline"
    /\ outline' = <<>>
    /\ i' = 0
    /\ manim_code' = None
    /\ attempts' = 0
    /\ success' = FALSE
    /\ e' = None
    /\ video_files' = <<>>
    /\ process' = None
    /\ clips' = <<>>
    /\ final_video' = None
    /\ raised' = None
    /\ trace' = <<>>
    /\ chapter_result' = <<>>
    /\ UNCHANGED <<temp_files, temp_file_name, disk>>

\* outline = generate_video_outline(concept); video_files = []
GenerateOutline ==
    /\ pc = "outline"
    /\ \/ /\ Escape("OutlineError")
          /\ UNCHANGED <<outline, i>>
       \/ \E n \in 0..MaxChapters :
            /\ outline' = [k \in 1..n |-> k]
            /\ i' = 0
            /\ pc' = ForNext(0, n)
            /\ UNCHANGED raised
    /\ video_files' = <<>>
    /\ UNCHANGED <<concept, manim_code, attempts, success, e, temp_files,
                   temp_file_name, process, disk, clips, reports, final_video,
                   trace, chapter_result>>

\* manim_code = generate_manim_code(chapter); attempts = 0; success = False
GenerateCode ==
    /\ pc = "generate"
    /\ \/ /\ Escape("CodeGenerationError")
          /\ UNCHANGED <<manim_code, attempts, success, trace>>
       \/ \E code \in Sources :
            /\ manim_code' = code
            /\ attempts' = 0
            /\ success' = FALSE
            /\ trace' = <<>>
            /\ pc' = WhileNext(0, FALSE)
            /\ UNCHANGED raised
    /\ UNCHANGED <<concept, outline, i, e, video_files, temp_files,
                   temp_file_name, process, disk, clips, reports, final_video,
                   chapter_result>>

\* create_video_from_code up to Popen: the temporary file is written, then the
\* child starts, or Popen raises FileNotFoundError and finally removes the file.
RenderStart ==
    /\ pc = "render"
    /\ LET name == CHOOSE t \in TempNames : t \notin temp_files
       IN  \/ /\ temp_files' = temp_files \cup {name}
              /\ temp_file_name' = name
              /\ process' = "running"
              /\ pc' = "communicate"
              /\ UNCHANGED <<attempts, e, trace>>
           \/ /\ temp_files' = RemoveTemp(temp_files \cup {name}, name)
              /\ temp_file_name' = None
              /\ process' = None
              /\ trace' = Append(trace, RenderCall(manim_code, "Manim is not installed or not in PATH."))
              /\ Handler("Manim is not installed or not in PATH.")
    /\ UNCHANGED <<concept, outline, i, manim_code, success, video_files,
                   disk, clips, reports, final_video, raised, chapter_result>>

\* process.communicate(timeout=60) to the end of the try block of the loop:
\* return code, finally, extract_class_name, os.path.exists(video_file).
RenderWait ==
    /\ pc = "communicate"
    /\ temp_files' = RemoveTemp(temp_files, temp_file_name)
    /\ temp_file_name' = None
    /\ \/ /\ process' = TimeoutKill
          /\ trace' = Append(trace, RenderCall(manim_code, "timed out"))
          /\ Handler("timed out")
          /\ UNCHANGED <<success, video_files, disk>>
       \/ /\ process' = "exited"
          /\ trace' = Append(trace, RenderCall(manim_code, "CalledProcessError"))
          /\ Handler("CalledProcessError")
          /\ UNCHANGED <<success, video_files, disk>>
       \/ \E wrote \in BOOLEAN :
            LET class_name == extract_class_name(manim_code)
                video_file == video_path(class_name)
            IN  /\ process' = "exited"
                /\ IF class_name = ValueError
                   THEN /\ trace' = Append(trace, RenderCall(manim_code, ValueError))
                        /\ Handler(ValueError)
                        /\ UNCHANGED <<success, video_files, disk>>
                   ELSE /\ disk' = IF wrote THEN disk \cup {video_file} ELSE disk
                        /\ IF VideoCreated(video_file, disk')
                           THEN /\ video_files' = RecordClip(video_files, video_file)
                                /\ success' = TRUE
                                /\ attempts' = attempts + 1
                                /\ pc' = WhileNext(attempts + 1, TRUE)
                                /\ trace' = Append(trace, RenderCall(manim_code, "ok"))
                                /\ UNCHANGED e
                           ELSE /\ trace' = Append(trace, RenderCall(manim_code, "Video file not created."))
                                /\ Handler("Video file not created.")
                                /\ UNCHANGED <<success, video_files>>
    /\ UNCHANGED <<concept, outline, i, manim_code, clips, reports,
                   final_video, raised, chapter_result>>

\* manim_code = fix_manim_code(str(e), manim_code); attempts += 1
FixCode ==
    /\ pc = "fix"
    /\ \/ /\ Escape("CodeFixError")
          /\ trace' = Append(trace, FixCall(manim_code, e, "raised", <<>>))
          /\ UNCHANGED <<manim_code, attempts, e>>
       \/ \E code \in Sources :
            /\ manim_code' = FixedSource(manim_code, code)
            /\ trace' = Append(trace, FixCall(manim_code, e, "returned", code))
            /\ e' = None
            /\ attempts' = attempts + 1
            /\ pc' = WhileNext(attempts + 1, success)
            /\ UNCHANGED raised
    /\ UNCHANGED <<concept, outline, i, success, video_files, temp_files,
                   temp_file_name, process, disk, clips, reports, final_video,
                   chapter_result>>

\* if not success: st.warning(...); then the next chapter of the for loop.
AfterLoop ==
    /\ pc = "after_loop"
    /\ IF ~success
       THEN /\ reports' = Append(reports,
                    Report("warning", "Failed to generate chapter", i + 1))
            /\ chapter_result' = Append(chapter_result, Skipped(outline[i + 1]))
       ELSE /\ chapter_result' = Append(chapter_result,
                    Rendered(outline[i + 1],
                             video_path(extract_class_name(manim_code))))
            /\ UNCHANGED reports
    /\ i' = i + 1
    /\ pc' = AfterChapter(i + 1, Len(outline), success)
    /\ e' = None
    /\ trace' = <<>>
    /\ UNCHANGED <<concept, outline, manim_code, attempts, success,
                   video_files, temp_files, temp_file_name, process, disk,
                   clips, final_video, raised>>

\* Mutant of AssemblyFails: the exception is reported as the no-clips warning.
AssemblyFailsAsNoClips ==
    /\ e' = "VideoError"
    /\ reports' = Append(reports, Report("warning", "No clips to combine.", 0))
    /\ final_video' = None
    /\ pc' = "returned"

\* except Exception as e: st.error(f"Failed to combine video: {e}"); return None
AssemblyFails ==
    /\ e' = "VideoError"
    /\ reports' = Append(reports, Report("error", "Failed to combine video", 0))
    /\ final_video' = None
    /\ pc' = "returned"

\* Mutant of NoChapters: the empty list is handed to concatenate_videoclips,
\* which raises, and the except block reports an assembly error.
NoChaptersAsError ==
    /\ pc = "assemble"
    /\ video_files = <<>>
    /\ e' = "VideoError"
    /\ reports' = Append(reports, Report("error", "Failed to combine video", 0))
    /\ final_video' = None
    /\ pc' = "returned"
    /\ UNCHANGED <<concept, outline, i, manim_code, attempts, success,
                   video_files, temp_files, temp_file_name, process, disk,
                   clips, raised, trace, chapter_result>>

\* if video_files: ... else: st.warning(...); return None
NoChapters ==
    /\ pc = "assemble"
    /\ video_files = <<>>
    /\ reports' = Append(reports,
            Report("warning", "No video chapters were successfully generated.", 0))
    /\ final_video' = None
    /\ pc' = "returned"
    /\ UNCHANGED <<concept, outline, i, manim_code, attempts, success, e,
                   video_files, temp_files, temp_file_name, process, disk,
                   clips, raised, trace, chapter_result>>

\* clips = [VideoFileClip(vf) for vf in video_files if os.path.exists(vf)]
\* Files may have been removed since they were rendered; opening a clip may
\* raise, and then the clips opened before it stay open.
OpenClips ==
    /\ pc = "assemble"
    /\ video_files # <<>>
    /\ \E gone \in SUBSET Range(video_files) :
        /\ disk' = disk \ gone
        /\ LET existing == ExistingClips(video_files, disk')
           IN  \E k \in 0..Len(existing) :
                 IF k < Len(existing)
                 THEN /\ clips' = SubSeq(existing, 1, k)
                      /\ AssemblyFails
                 ELSE /\ clips' = existing
                      /\ UNCHANGED e
                      /\ IF existing # <<>>
                         THEN /\ pc' = "concatenate"
                              /\ UNCHANGED <<reports, final_video>>
                         ELSE /\ reports' = Append(reports,
                                      Report("warning", "No clips to combine.", 0))
                              /\ final_video' = None
                              /\ pc' = "returned"
    /\ UNCHANGED <<concept, outline, i, manim_code, attempts, success,
                   video_files, temp_files, temp_file_name, process, raised,
                   trace, chapter_result>>

\* final = concatenate_videoclips(clips)
Concatenate ==
    /\ pc = "concatenate"
    /\ \/ AssemblyFails
       \/ /\ pc' = "write"
          /\ UNCHANGED <<e, reports, final_video>>
    /\ UNCHANGED <<concept, outline, i, manim_code, attempts, success,
                   video_files, temp_files, temp_file_name, process, disk,
                   clips, raised, trace, chapter_result>>

\* final.write_videofile(...); final.close(); clip.close() for each clip;
\* st.success(...); return final_path
WriteVideo ==
    /\ pc = "write"
    /\ \/ /\ AssemblyFails
          /\ \E partial \in BOOLEAN :
                disk' = IF partial THEN disk \cup {final_path} ELSE disk
          /\ UNCHANGED clips
       \/ /\ disk' = disk \cup {final_path}
          /\ clips' = <<>>
          /\ reports' = Append(reports,
                  Report("success", "Video generation complete!", 0))
          /\ final_video' = final_path
          /\ pc' = "returned"
          /\ UNCHANGED e
    /\ UNCHANGED <<concept, outline, i, manim_code, attempts, success,
                   video_files, temp_files, temp_file_name, process, raised,
                   trace, chapter_result>>

\* main() after asyncio.run returned: st.video(final_video) or st.info(...)
MainShow ==
    /\ pc = "returned"
    /\ IF final_video # None /\ final_video \in disk
       THEN reports' = Append(reports, Report("video", final_video, 0))
       ELSE reports' = Append(reports, Report("info",
                "Video generation completed but no output video found.", 0))
    /\ pc' = "idle"
    /\ UNCHANGED <<concept, outline, i, manim_code, attempts, success, e,
                   video_files, temp_files, temp_file_name, process, disk,
                   clips, final_video, raised, trace, chapter_result>>

Next ==
    \/ Main
    \/ GenerateOutline
    \/ GenerateCode
    \/ RenderStart
    \/ RenderWait
    \/ FixCode
    \/ AfterLoop
    \/ NoChapters
    \/ OpenClips
    \/ Concatenate
    \/ WriteVideo
    \/ MainShow

Spec == Init /\ [][Next]_vars

\* process.communicate(timeout=60) returns or raises within the timeout, so
\* a render call that waits for the child always goes on.
FairSpec == Spec /\ WF_vars(RenderWait)

----------------------------------------------------------------------------
\* Properties of the chapter loop, read off the calls of the current chapter.

Renders(tr) == SelectSeq(tr, LAMBDA c : c.op = "render")

Fixes(tr) == SelectSeq(tr, LAMBDA c : c.op = "fix")

Failed(call) == call.out # "ok"

Last(s) == s[Len(s)]

\* The clips of the chapters that ended Rendered, in chapter order.
RECURSIVE RenderedClips(_)
RenderedClips(results) ==
    IF results = <<>> THEN <<>>
    ELSE LET rest == RenderedClips(SubSeq(results, 1, Len(results) - 1))
         IN  IF Last(results).status = "Rendered"
             THEN Append(rest, Last(results).clip)
             ELSE rest

\* C1 (retry bound): a chapter whose loop has ended with every render attempt
\* failed made exactly 2 render attempts and exactly 1 fix, which returned,
\* and the step that ends the chapter records it as Skipped and records no
\* clip for it.
C1_RetryBound ==
    [][(/\ pc = "after_loop"
        /\ \A k \in 1..Len(Renders(trace)) : Failed(Renders(trace)[k]))
       => /\ Len(Renders(trace)) = 2
          /\ Len(Fixes(trace)) = 1
          /\ Fixes(trace)[1].out = "returned"
          /\ ~success
          /\ chapter_result' = Append(chapter_result, Skipped(outline[i + 1]))
          /\ video_files' = video_files
          /\ RenderedClips(chapter_result') = RenderedClips(chapter_result)]_vars

\* Reached: a chapter's loop has ended after two failed renders.
C1_Witness ==
    /\ pc = "after_loop"
    /\ Len(Renders(trace)) = 2
    /\ Failed(Renders(trace)[1])
    /\ Failed(Renders(trace)[2])

\* C2 (retry success path): a chapter whose first render attempt failed and
\* whose second succeeded ends with success set and its clip path recorded
\* last in video_files, after exactly 2 render attempts and exactly 1 fix.
C2_RetrySuccess ==
    (/\ pc = "after_loop"
     /\ Len(Renders(trace)) >= 2
     /\ Failed(Renders(trace)[1])
     /\ ~Failed(Renders(trace)[2]))
    => /\ success
       /\ Len(Renders(trace)) = 2
       /\ Len(Fixes(trace)) = 1
       /\ Fixes(trace)[1].out = "returned"
       /\ video_files # <<>>
       /\ Last(video_files) = video_path(extract_class_name(Renders(trace)[2].code))

\* Reached: a chapter's loop has ended with a failed and then a good render.
C2_Witness ==
    /\ pc = "after_loop"
    /\ Len(Renders(trace)) = 2
    /\ Failed(Renders(trace)[1])
    /\ ~Failed(Renders(trace)[2])
    /\ success

\* C3 (order preservation): when the chapter loop is over, video_files, the
\* list assembly works on, is exactly the clips of the chapters that ended
\* Rendered, in outline order, and every chapter of the outline has ended.
C3_OrderPreserved ==
    pc \in {"assemble", "concatenate", "write", "returned"}
    => /\ Len(chapter_result) = Len(outline)
       /\ \A k \in 1..Len(outline) : chapter_result[k].title = outline[k]
       /\ video_files = RenderedClips(chapter_result)

\* Reached: chapters A, B, C with B skipped, and A's and C's clips different.
C3_Witness ==
    /\ pc = "assemble"
    /\ Len(chapter_result) = 3
    /\ chapter_result[1].status = "Rendered"
    /\ chapter_result[2].status = "Skipped"
    /\ chapter_result[3].status = "Rendered"
    /\ Len(video_files) = 2
    /\ video_files[1] # video_files[2]

\* C4 (fix failure is chapter-scoped): once the fix request of a chapter has
\* raised, no exception has left generate_video, no further render is made
\* and the chapter's loop has ended without success (it is skipped).
C4_FixFailureSkipsChapter ==
    (trace # <<>> /\ Last(trace).op = "fix" /\ Last(trace).out = "raised")
    => /\ raised = None
       /\ pc = "after_loop"
       /\ ~success

\* C5 (code-generation failure is chapter-scoped): a failure of
\* generate_manim_code never leaves generate_video as an exception.
C5_CodeGenFailureIsChapterScoped == raised # "CodeGenerationError"

C7_EmptyResult ==
    /\ (/\ pc \in {"concatenate", "write", "returned"}
        /\ Len(chapter_result) = Len(outline)
        /\ \A k \in 1..Len(chapter_result) : chapter_result[k].status = "Skipped")
       => /\ pc = "returned"
          /\ clips = <<>>
          /\ final_video = None
          /\ Last(reports) = Report("warning",
                "No video chapters were successfully generated.", 0)
          /\ \A k \in 1..Len(reports) : reports[k].kind # "error"
    /\ final_video # None
       => \E k \in 1..Len(chapter_result) : chapter_result[k].status = "Rendered"

\* Reached: generate_video has returned after two chapters, both skipped.
C7_Witness ==
    /\ pc = "returned"
    /\ Len(outline) = 2
    /\ Len(chapter_result) = 2
    /\ chapter_result[1].status = "Skipped"
    /\ chapter_result[2].status = "Skipped"

\* C8 (outline validation): whenever the run works with an outline, the
\* outline has between 1 and 3 chapters.
C8_OutlineValidated ==
    pc \notin {"idle", "outline"}
    => Len(outline) >= 1 /\ Len(outline) <= MaxOutlineChapters

\* C9 (assembly failure reporting): when opening, concatenating or writing
\* has raised, nothing has left generate_video as an exception, it returns
\* None and its last report is the error report; and a run that returns
\* without such an exception never reports an error, so the no-clips
\* outcomes (warnings) differ from the assembly failure.
C9_AssemblyFailureReported ==
    /\ e = "VideoError"
       => /\ raised = None
          /\ pc \in {"returned", "idle"}
          /\ final_video = None
          /\ \E k \in 1..Len(reports) :
                reports[k] = Report("error", "Failed to combine video", 0)
          /\ pc = "returned" => Last(reports).kind = "error"
    /\ (pc = "returned" /\ e # "VideoError")
       => /\ \A k \in 1..Len(reports) : reports[k].kind # "error"
          /\ final_video = None => Last(reports).kind = "warning"

\* Reached: concatenating or writing raised with clips open.
C9_Witness ==
    /\ pc = "returned"
    /\ e = "VideoError"
    /\ clips # <<>>

\* C10 (attempt and fix invariant): in every state the current chapter has
\* had at most 2 renders and at most 1 fix; a fix is only ever the second
\* call of the chapter, right after a failed first render, and it is given
\* that failure's error detail and the source that failed.
C10_AttemptFixInvariant ==
    /\ attempts <= MaxAttempts
    /\ Len(Renders(trace)) <= MaxAttempts
    /\ Len(Fixes(trace)) <= 1
    /\ \A k \in 1..Len(trace) :
          trace[k].op = "fix"
          => /\ k = 2
             /\ trace[1].op = "render"
             /\ Failed(trace[1])
             /\ trace[k].err = trace[1].out
             /\ trace[k].code = trace[1].code
    /\ pc = "fix"
       => /\ Len(trace) = 1
          /\ Failed(trace[1])
          /\ e = trace[1].out

\* Reached: the second render failed after the fix, and the loop has ended
\* without a second fix.
C10_Witness ==
    /\ pc = "after_loop"
    /\ Len(trace) = 3
    /\ trace[2].op = "fix"
    /\ Failed(trace[3])

\* C11 (assembly resource release): once assembly has ended, whether it
\* returned a path or reported a failure, no opened clip is left unclosed.
C11_ClipsReleased ==
    pc = "returned" => clips = <<>>

\* C12 (clip files are write-once): no two chapters of a run record the
\* same clip path, so video_files never holds a path twice.
C12_ClipsWriteOnce ==
    \A j, k \in 1..Len(video_files) : j # k => video_files[j] # video_files[k]

\* C13 (temporary-file cleanup): while a render call waits for the child
\* exactly one temporary source file exists, the one the call created; in
\* every other state, so after every exit of the call and after the run,
\* none exists.
C13_TempFileCleanup ==
    /\ Cardinality(temp_files) <= 1
    /\ pc = "communicate" => temp_files = {temp_file_name}
    /\ pc # "communicate" => temp_files = {} /\ temp_file_name = None

\* Reached: a run has returned after render calls that failed (a skipped
\* chapter) and one that succeeded.
C13_Witness ==
    /\ pc = "returned"
    /\ temp_files = {}
    /\ \E k \in 1..Len(chapter_result) : chapter_result[k].status = "Skipped"
    /\ \E k \in 1..Len(chapter_result) : chapter_result[k].status = "Rendered"

\* C14 (timeout handling): the step in which a render call times out kills
\* the child, leaves no temporary file, records no clip and raises nothing
\* out of generate_video; the timeout is handled as a failed attempt (the
\* fix is asked for after the first attempt, the loop ends after the
\* second); and a render call that waits for the child always goes on.
C14_TimeoutHandling ==
    /\ [][(/\ Len(trace') = Len(trace) + 1
           /\ Last(trace').op = "render"
           /\ Last(trace').out = "timed out")
          => /\ pc = "communicate"
             /\ process' = "killed"
             /\ temp_files' = {}
             /\ ~success'
             /\ video_files' = video_files
             /\ raised' = None
             /\ e' = "timed out"
             /\ Len(Renders(trace')) = Len(Renders(trace)) + 1
             /\ IF attempts = 0
                THEN pc' = "fix" /\ attempts' = 0
                ELSE pc' = "after_loop" /\ attempts' = MaxAttempts]_vars
    /\ (pc = "communicate") ~> (pc # "communicate")

\* Reached: the second render of a chapter timed out and the loop has ended.
C14_Witness ==
    /\ pc = "after_loop"
    /\ Len(trace) = 3
    /\ trace[3].out = "timed out"
    /\ process = "killed"
    /\ temp_files = {}

HasNoSceneClass(code) == \A k \in 1..Len(code) : code[k] \notin ClassNames

\* C15 (entry-point extraction failure is non-fatal): a render of a source
\* that declares no Scene class never succeeds, and the extraction error is
\* raised only for such a source; when the first render of a chapter ends
\* with the extraction error nothing leaves generate_video because of it:
\* the fixer is invoked next, and once the fixer has returned a second
\* render is made.
C15_ExtractionFailureNonFatal ==
    \A k \in 1..Len(trace) :
        /\ (trace[k].op = "render" /\ HasNoSceneClass(trace[k].code))
           => Failed(trace[k])
        /\ (trace[k].op = "render" /\ trace[k].out = ValueError)
           => /\ HasNoSceneClass(trace[k].code)
              /\ raised \in {None, "CodeFixError"}
              /\ k = 1 =>
                  /\ pc = "fix" \/ (Len(trace) >= 2 /\ trace[2].op = "fix")
                  /\ (Len(trace) >= 2 /\ trace[2].out = "returned")
                     => \/ pc \in {"render", "communicate"}
                        \/ (Len(trace) = 3 /\ trace[3].op = "render")

\* Reached: the first render ended with the extraction error, the fixer
\* returned and the second render has been made.
C15_Witness ==
    /\ Len(trace) = 3
    /\ trace[1].out = ValueError
    /\ trace[2].op = "fix"
    /\ trace[3].op = "render"

\* C16 (missing artifact is a failure): a render is taken as a success, and
\* its path appended to video_files, only if the composed path exists on
\* disk; the step that finds the path missing after return code 0 records no
\* clip, raises nothing out of generate_video and is handled as a failed
\* attempt (the fix is asked for after the first attempt, the loop ends
\* after the second).
C16_MissingArtifactIsFailure ==
    [][(/\ Len(trace') = Len(trace) + 1
        /\ Last(trace').op = "render")
       => LET call == Last(trace')
              path == video_path(extract_class_name(call.code))
          IN  /\ call.out = "ok"
                 => /\ path \in disk'
                    /\ video_files' = Append(video_files, path)
              /\ call.out = "Video file not created."
                 => /\ path \notin disk'
                    /\ process' = "exited"
                    /\ ~success'
                    /\ video_files' = video_files
                    /\ raised' = None
                    /\ e' = "Video file not created."
                    /\ IF attempts = 0
                       THEN pc' = "fix" /\ attempts' = 0
                       ELSE pc' = "after_loop" /\ attempts' = MaxAttempts]_vars

\* Reached: the first render exited with code 0 without its artifact, and
\* the fixer has been invoked for it.
C16_Witness ==
    /\ Len(trace) >= 2
    /\ trace[1].out = "Video file not created."
    /\ trace[2].op = "fix"
    /\ video_path(extract_class_name(trace[1].code)) \notin disk

\* The error details a failed render can carry.
ErrorDetails ==
    { "Manim is not installed or not in PATH.", "timed out",
      "CalledProcessError", ValueError, "Video file not created." }

\* C17 (skip reason retention): for every chapter that ended Skipped the run
\* keeps, with the chapter it reports as failed, the error detail of the
\* chapter's last failed step.
C17_SkipReasonRetained ==
    \A k \in 1..Len(chapter_result) :
        chapter_result[k].status = "Skipped"
        => \E j \in 1..Len(reports) :
              /\ reports[j].chapter = k
              /\ reports[j].text \in ErrorDetails

\* C18 (source replacement): the first render of a chapter is given the
\* source generate_manim_code returned, unchanged; the fixer is called at
\* most once, with the first render's error detail and the source that
\* failed; and the second render is given exactly the source the fixer
\* returned.
C18_SourceReplacement ==
    /\ [](/\ Len(Fixes(trace)) <= 1
          /\ \A k \in 1..Len(trace) :
                trace[k].op = "fix"
                => /\ k = 2
                   /\ trace[k].err = trace[1].out
                   /\ trace[k].code = trace[1].code
                   /\ trace[k].out = "returned" => trace[k].ret \in Sources
          /\ (Len(trace) = 3 /\ trace[3].op = "render")
             => /\ trace[2].op = "fix"
                /\ trace[2].out = "returned"
                /\ trace[3].code = trace[2].ret
          /\ (pc \in {"render", "communicate"} /\ Len(trace) = 2)
             => manim_code = trace[2].ret)
    /\ [][/\ (pc = "generate" /\ pc' = "render")
             => trace' = <<>> /\ manim_code' \in Sources
          /\ (pc \in {"render", "communicate"} /\ trace = <<>>)
             => /\ manim_code' = manim_code
                /\ trace' # <<>>
                   => /\ trace'[1].op = "render"
                      /\ trace'[1].code = manim_code]_vars

\* Reached: the second render was given a source that differs from the one
\* that failed in the first.
C18_Witness ==
    /\ Len(trace) = 3
    /\ trace[3].op = "render"
    /\ trace[3].code # trace[1].code

\* C19 (assembly re-check): the step that opens the clips opens only
\* recorded paths that are on disk at that time, in the order of
\* video_files; concatenation is reached only with all of them open; and if
\* none is left the run returns None with the "no clips" warning, no error,
\* no clip open and no output file written.
C19_AssemblyRecheck ==
    [][(pc = "assemble" /\ video_files # <<>>)
       => LET remaining == SelectSeq(video_files, LAMBDA vf : vf \in disk')
          IN  /\ Len(clips') <= Len(remaining)
              /\ clips' = SubSeq(remaining, 1, Len(clips'))
              /\ pc' = "concatenate"
                 => clips' = remaining /\ remaining # <<>>
              /\ remaining = <<>>
                 => /\ pc' = "returned"
                    /\ clips' = <<>>
                    /\ final_video' = None
                    /\ e' = None
                    /\ Last(reports') = Report("warning", "No clips to combine.", 0)
                    /\ (final_path \in disk') = (final_path \in disk)]_vars

\* Reached: of two recorded clips one was gone at assembly, and only the
\* other was opened.
C19_Witness ==
    /\ pc = "concatenate"
    /\ Len(video_files) = 2
    /\ Len(clips) = 1
    /\ \E k \in 1..2 : video_files[k] \notin disk

====
